---------------------------- MODULE Spec2Model ----------------------------
(***************************************************************************)
(* Model of the concurrent request-dispatch engine of stress_test.py:      *)
(* StressTester.run (batch scheduler), StressTester.run_batch (worker      *)
(* pool over an asyncio.Queue), StressTester.worker, make_request and      *)
(* signal_handler (the cancellation flag self.running).                    *)
(*                                                                         *)
(* Granularity.  The coroutines run on one asyncio event loop, so a        *)
(* coroutine is atomic between two suspension points; the suspension       *)
(* points are queue.join(), asyncio.gather(), asyncio.sleep(), the         *)
(* wait_for(queue.get()) of a worker and the network I/O of make_request.  *)
(* The SIGINT handler is a Python-level signal handler: it runs between    *)
(* two bytecodes of the main thread, so it interleaves with every step,    *)
(* including between a read of self.running and the statement after it.    *)
(***************************************************************************)
EXTENDS Integers, Sequences, FiniteSets, TLC

\* ------------------------------------------------------------------ bounds
MaxRequests == 3
MaxConcurrency == 2
MaxCooldown == 1
\* Requests of a run whose attempts can meet every kind of failure.
MaxDispatchRequests == 2
\* Lengths of the result lists the statistics are computed from.
MaxSamples == 5
MaxOutcomes == 10
MaxBoundarySamples == 2
\* Number of -H arguments given to main().
MaxHeaders == 2
\* Number of rows of the CSV file given to visualize_stress_test.py.
MaxTimestamps == 3
\* Largest TOTAL_REQUESTS given to client.py: above 256, where the addresses
\* leave 10.0.0.x.
MaxIpCount == 260

BatchIds == 0..(MaxRequests - 1)
WorkerIds == 0..(MaxConcurrency - 1)

VARIABLES
    total_requests,   \* self.total_requests
    concurrency,      \* self.concurrency
    batch_size,       \* self.batch_size
    cooldown,         \* self.cooldown, in ticks of the model's clock
    network,          \* what an attempt of this run can meet (the target's behaviour)
    method,           \* self.method
    body,             \* self.body ("" when --body is not given)
    header_args,      \* args.headers: each -H argument as a sequence of characters
    headers,          \* main(): the headers dictionary built from args.headers
    running,          \* self.running: TRUE until SIGINT
    results,          \* self.results
    schedPc,          \* where main()/run() stands
    batch_num,        \* loop variable of run()
    cooldownLeft,     \* remaining ticks of the asyncio.sleep in progress
    queue,            \* queue[b]: items of the asyncio.Queue of batch b
    unfinished,       \* unfinished[b]: Queue._unfinished_tasks of batch b
    task,             \* task[b][w]: worker task w of batch b: [pc, item]
    sessions,         \* batches whose ClientSession is open
    now,              \* time.time(), in ticks of the model's clock
    start_time,       \* self.start_time
    end_time,         \* self.end_time
    stats,            \* main(): what calculate_stats returned (None before)
    buckets,          \* main(): what generate_latency_distribution returned
    printed,          \* main(): what was printed and exported, in order
    exported,         \* main(): the rows save_results_csv wrote (None without --csv)
    cancelAt,         \* history: where run() stood, the sleep left and the batches
                      \* started at the first SIGINT
    dispatched,       \* history: identifiers dequeued so far
    aborted,          \* history: identifiers whose attempt was cancelled in flight
    met,              \* history: met[i] is what the attempt of results[i] met
    progress,         \* history: the values passed to the progress callback
    waits,            \* history: batch_num of each batch followed by a cooldown wait
    batchLog,         \* history: <<start_idx, end_idx>> of each run_batch call
    timestamps,       \* visualize_stress_test.py: data['timestamps'], in tenths of a second
    throughput,       \* visualize_stress_test.py: what plot_throughput computed
    count,            \* client.py: the argument of generate_unique_ips
    ips               \* client.py: what generate_unique_ips returned (None before)

vars == <<total_requests, concurrency, batch_size, cooldown, network, method, body,
          header_args, headers, running, results,
          schedPc, batch_num, cooldownLeft, queue, unfinished, task, sessions,
          now, start_time, end_time, stats, buckets, printed, exported,
          cancelAt, dispatched, aborted, met, progress, waits, batchLog,
          timestamps, throughput, count, ips>>

config == <<total_requests, concurrency, batch_size, cooldown, network, method, body,
           header_args, headers>>
history == <<cancelAt, dispatched, aborted, met, progress, waits, batchLog>>
clock == <<now, start_time, end_time>>
mainOut == <<stats, buckets, printed, exported>>
scripts == <<timestamps, throughput, count, ips>>

NoItem == 0 - 1

Min(a, b) == IF a <= b THEN a ELSE b

\* ------------------------------------------------------- make_request
\* What one attempt can meet: a response read in full (any status) after ms
\* milliseconds, a timeout (asyncio.TimeoutError), aiohttp's
\* ServerTimeoutError (both a ClientError and an asyncio.TimeoutError), any
\* other aiohttp.ClientError, or any other exception (msg is str(e)).
Attempts ==
    { [kind |-> "response", status |-> 200, size |-> 1, ms |-> 50, msg |-> ""],
      [kind |-> "response", status |-> 500, size |-> 0, ms |-> 120, msg |-> ""],
      [kind |-> "timeout", status |-> 0, size |-> 0, ms |-> 30000, msg |-> ""],
      [kind |-> "server_timeout", status |-> 0, size |-> 0, ms |-> 30000, msg |-> "read"],
      [kind |-> "client_error", status |-> 0, size |-> 0, ms |-> 5, msg |-> ""],
      [kind |-> "exception", status |-> 0, size |-> 0, ms |-> 5, msg |-> "boom"] }

\* isinstance(e, asyncio.TimeoutError) and isinstance(e, aiohttp.ClientError)
\* for the exception the attempt raised.
IsTimeoutError(a) == a.kind \in {"timeout", "server_timeout"}

IsClientError(a) == a.kind \in {"client_error", "server_timeout"}

\* An exception leaving make_request instead of a RequestResult.
Raised == [raised |-> TRUE]

\* Mutant: make_request without its last clause "except Exception".
make_request_NoCatchAll(id, a) ==
    IF a.kind = "response"
    THEN [request_id |-> id, success |-> TRUE, status_code |-> a.status,
          response_time |-> a.ms, error |-> "", response_size |-> a.size]
    ELSE IF IsTimeoutError(a)
    THEN [request_id |-> id, success |-> FALSE, status_code |-> 0,
          response_time |-> a.ms, error |-> "Timeout", response_size |-> 0]
    ELSE IF IsClientError(a)
    THEN [request_id |-> id, success |-> FALSE, status_code |-> 0,
          response_time |-> a.ms, error |-> "ClientError: " \o a.msg, response_size |-> 0]
    ELSE Raised

\* Mutant: the error text is str(e) alone, which can be empty.
make_request_BareMessage(id, a) ==
    IF a.kind = "response"
    THEN [request_id |-> id, success |-> TRUE, status_code |-> a.status,
          response_time |-> a.ms, error |-> "", response_size |-> a.size]
    ELSE IF IsTimeoutError(a)
    THEN [request_id |-> id, success |-> FALSE, status_code |-> 0,
          response_time |-> a.ms, error |-> "Timeout", response_size |-> 0]
    ELSE [request_id |-> id, success |-> FALSE, status_code |-> 0,
          response_time |-> a.ms, error |-> a.msg, response_size |-> 0]

\* Mutant: the ClientError clause comes before the TimeoutError clause.
make_request_ClientErrorFirst(id, a) ==
    IF a.kind = "response"
    THEN [request_id |-> id, success |-> TRUE, status_code |-> a.status,
          response_time |-> a.ms, error |-> "", response_size |-> a.size]
    ELSE IF IsClientError(a)
    THEN [request_id |-> id, success |-> FALSE, status_code |-> 0,
          response_time |-> a.ms, error |-> "ClientError: " \o a.msg, response_size |-> 0]
    ELSE IF IsTimeoutError(a)
    THEN [request_id |-> id, success |-> FALSE, status_code |-> 0,
          response_time |-> a.ms, error |-> "Timeout", response_size |-> 0]
    ELSE [request_id |-> id, success |-> FALSE, status_code |-> 0,
          response_time |-> a.ms, error |-> "Exception: " \o a.msg, response_size |-> 0]

\* The RequestResult make_request returns for identifier id when the attempt
\* meets a; response_time is in milliseconds.  The except clauses are tried
\* in the order of the source.  (request_id is not a field of RequestResult;
\* it is kept here as the history of which attempt produced the record.)
make_request(id, a) ==
    IF a.kind = "response"
    THEN [request_id |-> id, success |-> TRUE, status_code |-> a.status,
          response_time |-> a.ms, error |-> "", response_size |-> a.size]
    ELSE IF IsTimeoutError(a)
    THEN [request_id |-> id, success |-> FALSE, status_code |-> 0,
          response_time |-> a.ms, error |-> "Timeout", response_size |-> 0]
    ELSE IF IsClientError(a)
    THEN [request_id |-> id, success |-> FALSE, status_code |-> 0,
          response_time |-> a.ms, error |-> "ClientError: " \o a.msg, response_size |-> 0]
    ELSE [request_id |-> id, success |-> FALSE, status_code |-> 0,
          response_time |-> a.ms, error |-> "Exception: " \o a.msg, response_size |-> 0]

\* ------------------------------------------------------- __init__
\* self.batch_size = batch_size or total_requests
BatchSizeOrDefault(arg, total) == IF arg = 0 THEN total ELSE arg

NoTask == [pc |-> "none", item |-> NoItem]

\* Python's None, for the results main() has not got (yet).
None == [none |-> TRUE]

\* The tester as __init__ leaves it, before run() is awaited.
\* The arguments main() passes on when -X, --body and -H are not given.
DefaultArgs ==
    /\ method = "GET"
    /\ body = ""
    /\ header_args = <<>>
    /\ headers = <<>>

\* visualize_stress_test.py has not been run.
VisualizerIdle ==
    /\ timestamps = <<>>
    /\ throughput = None

\* client.py has not been run.
ClientIdle ==
    /\ count = 0
    /\ ips = None

\* What __init__ assigns, and the loop and queues that do not exist yet.
Unstarted ==
    /\ running = TRUE
    /\ results = <<>>
    /\ batch_num = 0
    /\ cooldownLeft = 0
    /\ queue = [b \in BatchIds |-> <<>>]
    /\ unfinished = [b \in BatchIds |-> 0]
    /\ task = [b \in BatchIds |-> [w \in WorkerIds |-> NoTask]]
    /\ sessions = {}
    /\ now = 0
    /\ start_time = 0
    /\ end_time = 0
    /\ stats = None
    /\ buckets = None
    /\ printed = <<>>
    /\ exported = None
    /\ met = <<>>
    /\ progress = <<>>
    /\ waits = <<>>
    /\ cancelAt = [pc |-> "never", left |-> 0, started |-> 0]
    /\ dispatched = {}
    /\ aborted = {}
    /\ batchLog = <<>>

\* main() has built the tester and is about to call tester.run().
Constructed ==
    /\ schedPc = "init"
    /\ Unstarted

Init ==
    /\ total_requests \in 0..MaxRequests
    /\ concurrency \in 1..MaxConcurrency
    /\ batch_size \in {BatchSizeOrDefault(arg, total_requests) : arg \in 0..MaxRequests}
    /\ cooldown \in 0..MaxCooldown
    /\ network = {a \in Attempts : a.kind = "timeout" \/ a.status = 200}
    /\ DefaultArgs
    /\ Constructed
    /\ VisualizerIdle
    /\ ClientIdle

\* ------------------------------------------------------- signal_handler
\* The workers that hold an identifier or stand inside wait_for(queue.get()).
Committed ==
    {p \in BatchIds \X WorkerIds : task[p[1]][p[2]].pc \in {"get", "request"}}

\* Mutant: the handler toggles the flag instead of clearing it.
signal_handler_Toggle ==
    /\ running' = ~running
    /\ cancelAt' = IF running
                   THEN [pc |-> schedPc, left |-> cooldownLeft, started |-> Len(batchLog)]
                   ELSE cancelAt
    /\ UNCHANGED <<config, scripts, clock, mainOut, results, schedPc, batch_num, cooldownLeft, queue,
                   unfinished, task, sessions, dispatched, aborted, met, progress, waits, batchLog>>

signal_handler ==
    /\ running' = FALSE
    /\ cancelAt' = IF running
                   THEN [pc |-> schedPc, left |-> cooldownLeft, started |-> Len(batchLog)]
                   ELSE cancelAt
    /\ UNCHANGED <<config, scripts, clock, mainOut, results, schedPc, batch_num, cooldownLeft, queue,
                   unfinished, task, sessions, dispatched, aborted, met, progress, waits, batchLog>>

\* ------------------------------------------------------- run
\* Mutant: the division rounds down, so a last partial batch is lost.
num_batches_Floor == total_requests \div batch_size

num_batches == (total_requests + batch_size - 1) \div batch_size

start_idx == batch_num * batch_size

\* Mutant: the end of the last batch is not clamped to total_requests.
end_idx_NoClamp == (batch_num + 1) * batch_size

end_idx == Min((batch_num + 1) * batch_size, total_requests)

\* main() awaits tester.run(); run() sets start_time, computes num_batches and
\* reaches its for loop.  With batch_size 0 (no --batch-size and
\* total_requests 0) the division raises ZeroDivisionError, which leaves
\* run() and main().
run_begin ==
    /\ schedPc = "init"
    /\ schedPc' = IF batch_size = 0 THEN "crashed" ELSE "loop"
    /\ batch_num' = 0
    /\ start_time' = now
    /\ UNCHANGED <<config, scripts, now, end_time, mainOut, running, results, cooldownLeft,
                   queue, unfinished, task, sessions, history>>

\* Mutant: the for loop has no "if not self.running: break".
run_loop_IgnoreFlag ==
    /\ schedPc = "loop"
    /\ schedPc' = IF batch_num >= num_batches THEN "returned" ELSE "start"
    /\ end_time' = IF schedPc' = "returned" THEN now ELSE end_time
    /\ UNCHANGED <<config, scripts, now, start_time, mainOut, running, results, batch_num, cooldownLeft, queue,
                   unfinished, task, sessions, history>>

\* Top of the for loop: the range is exhausted, or "if not self.running:
\* break" (run() then sets end_time and returns), or the body is entered.
run_loop ==
    /\ schedPc = "loop"
    /\ schedPc' = IF batch_num >= num_batches \/ ~running THEN "returned" ELSE "start"
    /\ end_time' = IF schedPc' = "returned" THEN now ELSE end_time
    /\ UNCHANGED <<config, scripts, now, start_time, mainOut, running, results, batch_num, cooldownLeft, queue,
                   unfinished, task, sessions, history>>

\* Mutant: a fixed pool of worker tasks, whatever concurrency is.
run_batch_start_FixedPool ==
    /\ schedPc = "start"
    /\ sessions' = sessions \cup {batch_num}
    /\ queue' = [queue EXCEPT ![batch_num] =
                    [i \in 1..(end_idx - start_idx) |-> start_idx + i - 1]]
    /\ unfinished' = [unfinished EXCEPT ![batch_num] = end_idx - start_idx]
    /\ task' = [task EXCEPT ![batch_num] =
                    [w \in WorkerIds |-> [pc |-> "check", item |-> NoItem]]]
    /\ batchLog' = Append(batchLog, <<start_idx, end_idx>>)
    /\ schedPc' = "join"
    /\ UNCHANGED <<config, scripts, clock, mainOut, running, results, batch_num, cooldownLeft,
                   cancelAt, dispatched, aborted, met, progress, waits>>

\* run_batch up to "await queue.join()": the session is opened, the queue is
\* filled with range(start_idx, end_idx) and the worker tasks are created.
run_batch_start ==
    /\ schedPc = "start"
    /\ sessions' = sessions \cup {batch_num}
    /\ queue' = [queue EXCEPT ![batch_num] =
                    [i \in 1..(end_idx - start_idx) |-> start_idx + i - 1]]
    /\ unfinished' = [unfinished EXCEPT ![batch_num] = end_idx - start_idx]
    /\ task' = [task EXCEPT ![batch_num] =
                    [w \in WorkerIds |-> IF w < concurrency
                                         THEN [pc |-> "check", item |-> NoItem]
                                         ELSE NoTask]]
    /\ batchLog' = Append(batchLog, <<start_idx, end_idx>>)
    /\ schedPc' = "join"
    /\ UNCHANGED <<config, scripts, clock, mainOut, running, results, batch_num, cooldownLeft,
                   cancelAt, dispatched, aborted, met, progress, waits>>

\* Mutant: run_batch waits for the queue to be empty (every item dequeued)
\* instead of joined (every item marked done) before it cancels the workers.
queue_join_WhenEmpty ==
    /\ schedPc = "join"
    /\ queue[batch_num] = <<>>
    /\ task' = [task EXCEPT ![batch_num] =
                    [w \in WorkerIds |->
                        IF task[batch_num][w].pc \in {"check", "get", "request"}
                        THEN [pc |-> "cancelling", item |-> NoItem]
                        ELSE task[batch_num][w]]]
    /\ aborted' = aborted \cup
                    {task[batch_num][w].item :
                        w \in {v \in WorkerIds : task[batch_num][v].pc = "request"}}
    /\ schedPc' = "gather"
    /\ UNCHANGED <<config, scripts, clock, mainOut, running, results, batch_num, cooldownLeft, queue,
                   unfinished, sessions, cancelAt, dispatched, met, progress, waits, batchLog>>

\* "await queue.join()" returns once every put item was marked done; then
\* every worker task is cancelled: a task that has not finished gets
\* CancelledError at the await it is suspended in, which ends it without an
\* Outcome (CancelledError is not an Exception, so make_request does not
\* catch it).
queue_join ==
    /\ schedPc = "join"
    /\ unfinished[batch_num] = 0
    /\ task' = [task EXCEPT ![batch_num] =
                    [w \in WorkerIds |->
                        IF task[batch_num][w].pc \in {"check", "get", "request"}
                        THEN [pc |-> "cancelling", item |-> NoItem]
                        ELSE task[batch_num][w]]]
    /\ aborted' = aborted \cup
                    {task[batch_num][w].item :
                        w \in {v \in WorkerIds : task[batch_num][v].pc = "request"}}
    /\ schedPc' = "gather"
    /\ UNCHANGED <<config, scripts, clock, mainOut, running, results, batch_num, cooldownLeft, queue,
                   unfinished, sessions, cancelAt, dispatched, met, progress, waits, batchLog>>

\* Mutant: the workers are cancelled but not gathered: run_batch returns
\* while cancelled tasks have not ended yet.
run_batch_return_NoGather ==
    /\ schedPc = "gather"
    /\ sessions' = sessions \ {batch_num}
    /\ IF cooldown > 0 /\ batch_num < num_batches - 1 /\ running
       THEN /\ schedPc' = "cooldown"
            /\ cooldownLeft' = cooldown
            /\ waits' = Append(waits, batch_num)
            /\ UNCHANGED batch_num
       ELSE /\ schedPc' = "loop"
            /\ batch_num' = batch_num + 1
            /\ UNCHANGED <<cooldownLeft, waits>>
    /\ UNCHANGED <<config, scripts, clock, mainOut, running, results, queue, unfinished, task,
                   cancelAt, dispatched, aborted, met, progress, batchLog>>

\* Mutant: the cooldown wait is also made after the last batch.
run_batch_return_WaitAfterLast ==
    /\ schedPc = "gather"
    /\ \A w \in WorkerIds : task[batch_num][w].pc \in {"none", "done", "cancelled"}
    /\ sessions' = sessions \ {batch_num}
    /\ IF cooldown > 0 /\ running
       THEN /\ schedPc' = "cooldown"
            /\ cooldownLeft' = cooldown
            /\ waits' = Append(waits, batch_num)
            /\ UNCHANGED batch_num
       ELSE /\ schedPc' = "loop"
            /\ batch_num' = batch_num + 1
            /\ UNCHANGED <<cooldownLeft, waits>>
    /\ UNCHANGED <<config, scripts, clock, mainOut, running, results, queue, unfinished, task,
                   cancelAt, dispatched, aborted, met, progress, batchLog>>

\* Mutant: run_batch returns as soon as one of its worker tasks has ended.
run_batch_return_FirstWorker ==
    /\ schedPc = "gather"
    /\ \E w \in WorkerIds : task[batch_num][w].pc \in {"done", "cancelled"}
    /\ sessions' = sessions \ {batch_num}
    /\ IF cooldown > 0 /\ batch_num < num_batches - 1 /\ running
       THEN /\ schedPc' = "cooldown"
            /\ cooldownLeft' = cooldown
            /\ waits' = Append(waits, batch_num)
            /\ UNCHANGED batch_num
       ELSE /\ schedPc' = "loop"
            /\ batch_num' = batch_num + 1
            /\ UNCHANGED <<cooldownLeft, waits>>
    /\ UNCHANGED <<config, scripts, clock, mainOut, running, results, queue, unfinished, task,
                   cancelAt, dispatched, aborted, met, progress, batchLog>>

\* Mutant: the session is left open when run_batch returns.
run_batch_return_KeepSession ==
    /\ schedPc = "gather"
    /\ \A w \in WorkerIds : task[batch_num][w].pc \in {"none", "done", "cancelled"}
    /\ IF cooldown > 0 /\ batch_num < num_batches - 1 /\ running
       THEN /\ schedPc' = "cooldown"
            /\ cooldownLeft' = cooldown
            /\ waits' = Append(waits, batch_num)
            /\ UNCHANGED batch_num
       ELSE /\ schedPc' = "loop"
            /\ batch_num' = batch_num + 1
            /\ UNCHANGED <<cooldownLeft, waits>>
    /\ UNCHANGED <<config, scripts, clock, mainOut, running, results, queue, unfinished, task,
                   sessions, cancelAt, dispatched, aborted, met, progress, batchLog>>

\* "await asyncio.gather(*workers)" returns when every worker task is done;
\* the session is closed on leaving "async with"; run_batch returns and run()
\* decides on the cooldown.
run_batch_return ==
    /\ schedPc = "gather"
    /\ \A w \in WorkerIds : task[batch_num][w].pc \in {"none", "done", "cancelled"}
    /\ sessions' = sessions \ {batch_num}
    /\ IF cooldown > 0 /\ batch_num < num_batches - 1 /\ running
       THEN /\ schedPc' = "cooldown"
            /\ cooldownLeft' = cooldown
            /\ waits' = Append(waits, batch_num)
            /\ UNCHANGED batch_num
       ELSE /\ schedPc' = "loop"
            /\ batch_num' = batch_num + 1
            /\ UNCHANGED <<cooldownLeft, waits>>
    /\ UNCHANGED <<config, scripts, clock, mainOut, running, results, queue, unfinished, task,
                   cancelAt, dispatched, aborted, met, progress, batchLog>>

\* One tick of the clock passes while run() is in asyncio.sleep(cooldown).
cooldown_tick ==
    /\ schedPc = "cooldown"
    /\ cooldownLeft > 0
    /\ cooldownLeft' = cooldownLeft - 1
    /\ now' = now + 1
    /\ UNCHANGED <<config, scripts, start_time, end_time, mainOut, running, results, schedPc, batch_num, queue,
                   unfinished, task, sessions, history>>

\* asyncio.sleep(cooldown) returns when the delay has passed; the for loop
\* takes the next batch_num.
cooldown_elapsed ==
    /\ schedPc = "cooldown"
    /\ cooldownLeft = 0
    /\ schedPc' = "loop"
    /\ batch_num' = batch_num + 1
    /\ UNCHANGED <<config, scripts, clock, mainOut, running, results, cooldownLeft, queue, unfinished,
                   task, sessions, history>>

\* ------------------------------------------------------- calculate_stats
\* Durations are integers in milliseconds (response_time * 1000); quotients
\* are kept exact as num/den records.
Rat(n, d) == [num |-> n, den |-> d]

\* Mutant: the durations are taken in whole seconds, the conversion to
\* milliseconds forgotten.
response_times_InSeconds == [i \in 1..Len(results) |-> results[i].response_time \div 1000]

\* response_times: one duration per appended result, in append order.
response_times == [i \in 1..Len(results) |-> results[i].response_time]

RECURSIVE insert(_, _)
insert(x, seq) ==
    IF seq = <<>> THEN <<x>>
    ELSE IF x <= Head(seq) THEN <<x>> \o seq
    ELSE <<Head(seq)>> \o insert(x, Tail(seq))

\* list.sort(): ascending order.
RECURSIVE sort(_)
sort(seq) == IF seq = <<>> THEN <<>> ELSE insert(Head(seq), sort(Tail(seq)))

RECURSIVE sum(_)
sum(seq) == IF seq = <<>> THEN 0 ELSE Head(seq) + sum(Tail(seq))

\* Mutant: the rank is taken over len(data) instead of len(data) - 1.
percentile_RankOverLen(data, p) ==
    IF data = <<>> THEN 0
    ELSE LET k == Len(data) * p
             f == k \div 100
             c == f + 1
         IN IF c >= Len(data) THEN data[Len(data)] * 100
            ELSE data[f + 1] * 100 + (k - f * 100) * (data[c + 1] - data[f + 1])

\* percentile(data, p) of the source with p given in hundredths (95 for
\* 0.95); k is the source's k in hundredths and the value returned is the
\* source's value in hundredths of a millisecond.  data is 0-indexed in the
\* source, 1-indexed here.
percentile(data, p) ==
    IF data = <<>> THEN 0
    ELSE LET k == (Len(data) - 1) * p
             f == k \div 100
             c == f + 1
         IN IF c >= Len(data) THEN data[Len(data)] * 100
            ELSE data[f + 1] * 100 + (k - f * 100) * (data[c + 1] - data[f + 1])

\* Mutant: for an even number of values the lower of the two middle values
\* is taken (statistics.median_low).
median_Low(data) == Rat(data[(Len(data) + 1) \div 2], 1)

\* statistics.median of sorted data: the middle element, or the mean of the
\* two middle elements.
median(data) ==
    LET n == Len(data) IN
    IF n % 2 = 1 THEN Rat(data[(n + 1) \div 2], 1)
    ELSE Rat(data[n \div 2] + data[n \div 2 + 1], 2)

successful == {i \in 1..Len(results) : results[i].success}

failed == {i \in 1..Len(results) : ~results[i].success}

\* Mutant: only the status codes of successful results are tallied.
status_codes_SuccessfulOnly ==
    [c \in {results[i].status_code : i \in successful} |->
        Cardinality({i \in successful : results[i].status_code = c})]

\* status_codes: how many results carry each status code.
status_codes ==
    [c \in {results[i].status_code : i \in 1..Len(results)} |->
        Cardinality({i \in 1..Len(results) : results[i].status_code = c})]

\* errors: how many failed results carry each error text.
errors ==
    [e \in {results[i].error : i \in failed} |->
        Cardinality({i \in failed : results[i].error = e})]

calculate_stats ==
    IF results = <<>> THEN None
    ELSE LET data == sort(response_times)
             total_time == end_time - start_time
         IN [total_requests |-> Len(results),
             successful_requests |-> Cardinality(successful),
             failed_requests |-> Cardinality(failed),
             total_time |-> total_time,
             requests_per_second |->
                 IF total_time > 0 THEN Rat(Len(results), total_time) ELSE Rat(0, 1),
             avg_response_time |-> Rat(sum(data), Len(data)),
             min_response_time |-> data[1],
             max_response_time |-> data[Len(data)],
             median_response_time |-> median(data),
             p95_response_time |-> percentile(data, 95),
             p99_response_time |-> percentile(data, 99),
             total_data_transferred |->
                 sum([i \in 1..Len(results) |->
                        IF results[i].success THEN results[i].response_size ELSE 0]),
             status_codes |-> status_codes,
             errors |-> errors]

\* ------------------------------------------------------- generate_latency_distribution
BucketNames ==
    <<"<10ms", "10-50ms", "50-100ms", "100-200ms", "200-500ms", "500ms-1s",
      "1-2s", "2-5s", ">5s">>

\* Mutant: the second bucket starts above 10 ms, so 10 ms falls through.
bucket_GapAtTen(ms) ==
    IF ms < 10 THEN "<10ms"
    ELSE IF ms = 10 THEN "none"
    ELSE IF ms < 50 THEN "10-50ms"
    ELSE IF ms < 100 THEN "50-100ms"
    ELSE IF ms < 200 THEN "100-200ms"
    ELSE IF ms < 500 THEN "200-500ms"
    ELSE IF ms < 1000 THEN "500ms-1s"
    ELSE IF ms < 2000 THEN "1-2s"
    ELSE IF ms < 5000 THEN "2-5s"
    ELSE ">5s"

\* Mutant: the comparisons are "<=", so a duration on an edge is counted in
\* the bucket below the edge.
bucket_UpperInclusive(ms) ==
    IF ms <= 10 THEN "<10ms"
    ELSE IF ms <= 50 THEN "10-50ms"
    ELSE IF ms <= 100 THEN "50-100ms"
    ELSE IF ms <= 200 THEN "100-200ms"
    ELSE IF ms <= 500 THEN "200-500ms"
    ELSE IF ms <= 1000 THEN "500ms-1s"
    ELSE IF ms <= 2000 THEN "1-2s"
    ELSE IF ms <= 5000 THEN "2-5s"
    ELSE ">5s"

\* The if/elif chain: the bucket a duration of ms milliseconds is counted in.
bucket(ms) ==
    IF ms < 10 THEN "<10ms"
    ELSE IF ms < 50 THEN "10-50ms"
    ELSE IF ms < 100 THEN "50-100ms"
    ELSE IF ms < 200 THEN "100-200ms"
    ELSE IF ms < 500 THEN "200-500ms"
    ELSE IF ms < 1000 THEN "500ms-1s"
    ELSE IF ms < 2000 THEN "1-2s"
    ELSE IF ms < 5000 THEN "2-5s"
    ELSE ">5s"

generate_latency_distribution ==
    [n \in {BucketNames[i] : i \in 1..Len(BucketNames)} |->
        Cardinality({i \in 1..Len(results) : bucket(results[i].response_time) = n})]

\* ------------------------------------------------------- save_results_csv
\* The file written: the header row, then "for i, r in enumerate(self.results)"
\* writes i + 1 and the fields of r.  Durations are whole milliseconds here, so
\* round(r.response_time * 1000, 2) is the duration itself; the Timestamp
\* column is not carried by the model's results.
save_results_csv ==
    [header |-> <<"Request_ID", "Success", "Status_Code", "Response_Time_ms",
                  "Response_Size_bytes", "Error">>,
     rows |-> [i \in 1..Len(results) |->
                 [Request_ID |-> i,
                  Success |-> results[i].success,
                  Status_Code |-> results[i].status_code,
                  Response_Time_ms |-> results[i].response_time,
                  Response_Size_bytes |-> results[i].response_size,
                  Error |-> results[i].error]]]

\* ------------------------------------------------------- main
\* Mutant: main() reports whatever calculate_stats returned.
report_NoGuard ==
    /\ schedPc = "returned"
    /\ schedPc' = "reported"
    /\ stats' = calculate_stats
    /\ buckets' = generate_latency_distribution
    /\ \E csv, json \in BOOLEAN :
          /\ printed' = <<"report", "latency_distribution">>
                          \o (IF csv THEN <<"csv">> ELSE <<>>)
                          \o (IF json THEN <<"json">> ELSE <<>>)
          /\ exported' = IF csv THEN save_results_csv ELSE None
    /\ UNCHANGED <<config, scripts, clock, running, results, batch_num, cooldownLeft, queue,
                   unfinished, task, sessions, history>>

\* Mutant: main() computes the statistics while the batch is still running.
report_WhileRunning ==
    /\ schedPc \in {"returned", "join"}
    /\ schedPc' = "reported"
    /\ stats' = calculate_stats
    /\ IF calculate_stats # None
       THEN /\ buckets' = generate_latency_distribution
            /\ \E csv, json \in BOOLEAN :
                  /\ printed' = <<"report", "latency_distribution">>
                                  \o (IF csv THEN <<"csv">> ELSE <<>>)
                                  \o (IF json THEN <<"json">> ELSE <<>>)
                  /\ exported' = IF csv THEN save_results_csv ELSE None
       ELSE /\ buckets' = None
            /\ printed' = <<"no_results">>
            /\ exported' = None
    /\ UNCHANGED <<config, scripts, clock, running, results, batch_num, cooldownLeft, queue,
                   unfinished, task, sessions, history>>

\* Mutant: calculate_stats sorts self.results in place by duration instead
\* of sorting a copy of the durations; the exports then follow that order.
report_SortsResults ==
    /\ schedPc = "returned"
    /\ schedPc' = "reported"
    /\ stats' = calculate_stats
    /\ results' = [i \in 1..Len(results) |->
                     LET d == sort(response_times)[i]
                     IN results[CHOOSE j \in 1..Len(results) :
                                  /\ results[j].response_time = d
                                  /\ Cardinality({l \in 1..j : results[l].response_time = d})
                                       = Cardinality({l \in 1..i :
                                                         sort(response_times)[l] = d})]]
    /\ IF calculate_stats # None
       THEN /\ buckets' = generate_latency_distribution
            /\ \E csv, json \in BOOLEAN :
                  /\ printed' = <<"report", "latency_distribution">>
                                  \o (IF csv THEN <<"csv">> ELSE <<>>)
                                  \o (IF json THEN <<"json">> ELSE <<>>)
                  /\ exported' = IF csv THEN save_results_csv ELSE None
       ELSE /\ buckets' = None
            /\ printed' = <<"no_results">>
            /\ exported' = None
    /\ UNCHANGED <<config, scripts, clock, running, batch_num, cooldownLeft, queue,
                   unfinished, task, sessions, history>>

\* main() after run() returned: calculate_stats, then either the report, the
\* latency distribution and the exports asked for (--csv, --json), or the
\* notice "[!] No results collected".
report ==
    /\ schedPc = "returned"
    /\ schedPc' = "reported"
    /\ stats' = calculate_stats
    /\ IF calculate_stats # None
       THEN /\ buckets' = generate_latency_distribution
            /\ \E csv, json \in BOOLEAN :
                  /\ printed' = <<"report", "latency_distribution">>
                                  \o (IF csv THEN <<"csv">> ELSE <<>>)
                                  \o (IF json THEN <<"json">> ELSE <<>>)
                  /\ exported' = IF csv THEN save_results_csv ELSE None
       ELSE /\ buckets' = None
            /\ printed' = <<"no_results">>
            /\ exported' = None
    /\ UNCHANGED <<config, scripts, clock, running, results, batch_num, cooldownLeft, queue,
                   unfinished, task, sessions, history>>

\* ------------------------------------------------------- worker
\* Mutant: a worker that sees the flag cleared reports the next queued
\* identifier as a "Cancelled" placeholder before it leaves.
worker_check_Placeholder(b, w) ==
    /\ task[b][w].pc = "check"
    /\ task' = [task EXCEPT ![b][w].pc = IF running THEN "get" ELSE "done"]
    /\ IF ~running /\ queue[b] # <<>>
       THEN /\ results' = Append(results,
                    [request_id |-> Head(queue[b]), success |-> FALSE,
                     status_code |-> 0, response_time |-> 0, error |-> "Cancelled",
                     response_size |-> 0])
            /\ queue' = [queue EXCEPT ![b] = Tail(queue[b])]
            /\ unfinished' = [unfinished EXCEPT ![b] = unfinished[b] - 1]
       ELSE UNCHANGED <<results, queue, unfinished>>
    /\ UNCHANGED <<config, scripts, clock, mainOut, running, schedPc, batch_num, cooldownLeft,
                   sessions, history>>

\* Mutant: the worker loops "while True" and never looks at the flag.
worker_check_IgnoreFlag(b, w) ==
    /\ task[b][w].pc = "check"
    /\ task' = [task EXCEPT ![b][w].pc = "get"]
    /\ UNCHANGED <<config, scripts, clock, mainOut, running, results, schedPc, batch_num,
                   cooldownLeft, queue, unfinished, sessions, history>>

\* "while self.running:" and the call of wait_for(queue.get(), 0.1).
worker_check(b, w) ==
    /\ task[b][w].pc = "check"
    /\ task' = [task EXCEPT ![b][w].pc = IF running THEN "get" ELSE "done"]
    /\ UNCHANGED <<config, scripts, clock, mainOut, running, results, schedPc, batch_num, cooldownLeft,
                   queue, unfinished, sessions, history>>

\* Mutant: the worker reads the head of the queue without removing it.
worker_get_Peek(b, w) ==
    /\ task[b][w].pc = "get"
    /\ IF queue[b] # <<>>
       THEN /\ task' = [task EXCEPT ![b][w] = [pc |-> "request", item |-> Head(queue[b])]]
            /\ dispatched' = dispatched \cup {Head(queue[b])}
            /\ UNCHANGED queue
       ELSE /\ task' = [task EXCEPT ![b][w].pc = "check"]
            /\ UNCHANGED <<queue, dispatched>>
    /\ UNCHANGED <<config, scripts, clock, mainOut, running, results, schedPc, batch_num, cooldownLeft,
                   unfinished, sessions, cancelAt, aborted, met, progress, waits, batchLog>>

\* Mutant: "await queue.get()" without a timeout: the worker stays parked
\* while the queue is empty.
worker_get_Blocking(b, w) ==
    /\ task[b][w].pc = "get"
    /\ queue[b] # <<>>
    /\ task' = [task EXCEPT ![b][w] = [pc |-> "request", item |-> Head(queue[b])]]
    /\ queue' = [queue EXCEPT ![b] = Tail(queue[b])]
    /\ dispatched' = dispatched \cup {Head(queue[b])}
    /\ UNCHANGED <<config, scripts, clock, mainOut, running, results, schedPc, batch_num, cooldownLeft,
                   unfinished, sessions, cancelAt, aborted, met, progress, waits, batchLog>>

\* wait_for(queue.get(), 0.1): an item is dequeued and its attempt starts, or
\* the queue stays empty for 0.1 s and TimeoutError sends the worker back to
\* the loop test.
worker_get(b, w) ==
    /\ task[b][w].pc = "get"
    /\ IF queue[b] # <<>>
       THEN /\ task' = [task EXCEPT ![b][w] = [pc |-> "request", item |-> Head(queue[b])]]
            /\ queue' = [queue EXCEPT ![b] = Tail(queue[b])]
            /\ dispatched' = dispatched \cup {Head(queue[b])}
       ELSE /\ task' = [task EXCEPT ![b][w].pc = "check"]
            /\ UNCHANGED <<queue, dispatched>>
    /\ UNCHANGED <<config, scripts, clock, mainOut, running, results, schedPc, batch_num, cooldownLeft,
                   unfinished, sessions, cancelAt, aborted, met, progress, waits, batchLog>>

\* Mutant: the result is put in front of the list.
worker_complete_Prepend(b, w) ==
    /\ task[b][w].pc = "request"
    /\ \E a \in network :
          /\ results' = <<make_request(task[b][w].item, a)>> \o results
          /\ met' = <<a>> \o met
    /\ progress' = Append(progress, Len(results'))
    /\ unfinished' = [unfinished EXCEPT ![b] = unfinished[b] - 1]
    /\ task' = [task EXCEPT ![b][w] = [pc |-> "check", item |-> NoItem]]
    /\ UNCHANGED <<config, scripts, clock, mainOut, running, schedPc, batch_num, cooldownLeft,
                   queue, sessions, cancelAt, dispatched, aborted, waits, batchLog>>

\* Mutant: the progress callback is called before the append.
worker_complete_ProgressFirst(b, w) ==
    /\ task[b][w].pc = "request"
    /\ \E a \in network :
          /\ results' = Append(results, make_request(task[b][w].item, a))
          /\ met' = Append(met, a)
    /\ progress' = Append(progress, Len(results))
    /\ unfinished' = [unfinished EXCEPT ![b] = unfinished[b] - 1]
    /\ task' = [task EXCEPT ![b][w] = [pc |-> "check", item |-> NoItem]]
    /\ UNCHANGED <<config, scripts, clock, mainOut, running, schedPc, batch_num, cooldownLeft,
                   queue, sessions, cancelAt, dispatched, aborted, waits, batchLog>>

\* Mutant: queue.task_done() is not called.
worker_complete_NoTaskDone(b, w) ==
    /\ task[b][w].pc = "request"
    /\ \E a \in network :
          /\ results' = Append(results, make_request(task[b][w].item, a))
          /\ met' = Append(met, a)
    /\ progress' = Append(progress, Len(results'))
    /\ task' = [task EXCEPT ![b][w] = [pc |-> "check", item |-> NoItem]]
    /\ UNCHANGED <<config, scripts, clock, mainOut, running, schedPc, batch_num, cooldownLeft,
                   queue, unfinished, sessions, cancelAt, dispatched, aborted, waits,
                   batchLog>>

\* make_request returns; the result is appended, the progress callback runs
\* and queue.task_done() is called, with no await in between.  An Exception
\* out of the try block ("except Exception: ... break") ends the worker with
\* neither the append nor task_done().
worker_complete(b, w) ==
    /\ task[b][w].pc = "request"
    /\ \E a \in network :
          LET result == make_request(task[b][w].item, a) IN
          IF result = Raised
          THEN /\ task' = [task EXCEPT ![b][w] = [pc |-> "done", item |-> NoItem]]
               /\ UNCHANGED <<results, met, progress, unfinished>>
          ELSE /\ results' = Append(results, result)
               /\ met' = Append(met, a)
               /\ progress' = Append(progress, Len(results'))
               /\ unfinished' = [unfinished EXCEPT ![b] = unfinished[b] - 1]
               /\ task' = [task EXCEPT ![b][w] = [pc |-> "check", item |-> NoItem]]
    /\ UNCHANGED <<config, scripts, clock, mainOut, running, schedPc, batch_num, cooldownLeft,
                   queue, sessions, cancelAt, dispatched, aborted, waits, batchLog>>

\* A cancelled worker task ends with CancelledError.
worker_cancelled(b, w) ==
    /\ task[b][w].pc = "cancelling"
    /\ task' = [task EXCEPT ![b][w].pc = "cancelled"]
    /\ UNCHANGED <<config, scripts, clock, mainOut, running, results, schedPc, batch_num, cooldownLeft,
                   queue, unfinished, sessions, history>>

\* ------------------------------------------------------- specification
Next ==
    \/ signal_handler
    \/ run_begin
    \/ run_loop
    \/ run_batch_start
    \/ queue_join
    \/ run_batch_return
    \/ cooldown_tick
    \/ cooldown_elapsed
    \/ report
    \/ \E b \in BatchIds, w \in WorkerIds : worker_check(b, w)
    \/ \E b \in BatchIds, w \in WorkerIds : worker_get(b, w)
    \/ \E b \in BatchIds, w \in WorkerIds : worker_complete(b, w)
    \/ \E b \in BatchIds, w \in WorkerIds : worker_cancelled(b, w)

Spec == Init /\ [][Next]_vars

\* The coroutines, for fairness.  The event loop runs every ready task in
\* turn, every attempt ends (at the latest by its ClientTimeout) and the
\* clock advances; SIGINT is an outside event and gets no fairness.
run ==
    \/ run_begin \/ run_loop \/ run_batch_start \/ queue_join
    \/ run_batch_return \/ cooldown_tick \/ cooldown_elapsed \/ report

worker(b, w) ==
    \/ worker_check(b, w) \/ worker_get(b, w)
    \/ worker_complete(b, w) \/ worker_cancelled(b, w)

FairSpec ==
    /\ Init /\ [][Next]_vars
    /\ WF_vars(run)
    /\ \A b \in BatchIds, w \in WorkerIds : WF_vars(worker(b, w))

\* A run against a server and network that can fail in every way
\* make_request distinguishes.
DispatchInit ==
    /\ total_requests \in 1..MaxDispatchRequests
    /\ concurrency \in 1..MaxConcurrency
    /\ batch_size \in {BatchSizeOrDefault(arg, total_requests) : arg \in 0..MaxDispatchRequests}
    /\ cooldown \in 0..MaxCooldown
    /\ network = Attempts
    /\ DefaultArgs
    /\ Constructed
    /\ VisualizerIdle
    /\ ClientIdle

DispatchSpec == DispatchInit /\ [][Next]_vars

\* ------------------------------------------------------- main: -H arguments
\* A string is a sequence of one-character strings.
\* The position of the first ch in s, 0 when there is none.
find(s, ch) ==
    IF \E i \in 1..Len(s) : s[i] = ch
    THEN CHOOSE i \in 1..Len(s) : s[i] = ch /\ \A j \in 1..(i - 1) : s[j] # ch
    ELSE 0

\* The position of the last ch in s, 0 when there is none.
rfind(s, ch) ==
    IF \E i \in 1..Len(s) : s[i] = ch
    THEN CHOOSE i \in 1..Len(s) : s[i] = ch /\ \A j \in (i + 1)..Len(s) : s[j] # ch
    ELSE 0

\* Mutant: the argument is split at its last ':' (rsplit).
split_AtLastColon(header) ==
    LET i == rfind(header, ":") IN
    IF i = 0 THEN <<header>>
    ELSE <<SubSeq(header, 1, i - 1), SubSeq(header, i + 1, Len(header))>>

\* header.split(':', 1): the text before the first ':' and the text after
\* it, or the whole text alone when it has no ':'.
split(header) ==
    LET i == find(header, ":") IN
    IF i = 0 THEN <<header>>
    ELSE <<SubSeq(header, 1, i - 1), SubSeq(header, i + 1, Len(header))>>

RECURSIVE lstrip(_)
lstrip(s) == IF s # <<>> /\ Head(s) = " " THEN lstrip(Tail(s)) ELSE s

RECURSIVE rstrip(_)
rstrip(s) ==
    IF s # <<>> /\ s[Len(s)] = " " THEN rstrip(SubSeq(s, 1, Len(s) - 1)) ELSE s

\* str.strip(), for the one kind of white space the arguments here contain.
strip(s) == rstrip(lstrip(s))

\* The loop "for header in args.headers": d is the dictionary built so far.
\* "key, value = header.split(':', 1)" raises ValueError when the split
\* gives one part; otherwise headers[key.strip()] = value.strip() adds the
\* key or replaces its value.
RECURSIVE parse_headers(_, _)
parse_headers(args, d) ==
    IF args = <<>> THEN [raised |-> FALSE, headers |-> d]
    ELSE LET parts == split(Head(args)) IN
         IF Len(parts) # 2 THEN [raised |-> TRUE, headers |-> d]
         ELSE LET key == strip(parts[1])
                  value == strip(parts[2])
              IN parse_headers(Tail(args),
                    [k \in DOMAIN d \cup {key} |-> IF k = key THEN value ELSE d[k]])

\* main() from parse_args to the construction of the tester: the headers
\* are parsed; the ValueError of a malformed argument is not caught (only
\* KeyboardInterrupt is, around asyncio.run) and ends the program.
main_parse ==
    /\ schedPc = "args"
    /\ LET r == parse_headers(header_args, <<>>) IN
       IF r.raised
       THEN /\ schedPc' = "rejected"
            /\ headers' = headers
       ELSE /\ schedPc' = "init"
            /\ headers' = r.headers
    /\ UNCHANGED <<total_requests, concurrency, batch_size, cooldown, network, method, body,
                   header_args, scripts, clock, mainOut, running, results, batch_num,
                   cooldownLeft, queue, unfinished, task, sessions, history>>

\* The -H arguments tried: "A:b", " A : c:d ", "Ab", ":" and "".
HeaderSamples ==
    {<<"A", ":", "b">>,
     <<" ", "A", " ", ":", " ", "c", ":", "d", " ">>,
     <<"A", "b">>,
     <<":">>,
     <<>>}

\* main() after parse_args, with up to MaxHeaders -H arguments, for a run of
\* one worker against a server that answers every request.
HeaderInit ==
    /\ total_requests \in 1..MaxDispatchRequests
    /\ concurrency = 1
    /\ batch_size \in {BatchSizeOrDefault(arg, total_requests) : arg \in 0..MaxDispatchRequests}
    /\ cooldown \in 0..MaxCooldown
    /\ network = {a \in Attempts : a.status = 200}
    /\ method = "GET"
    /\ body = ""
    /\ header_args \in UNION {[1..n -> HeaderSamples] : n \in 0..MaxHeaders}
    /\ headers = <<>>
    /\ schedPc = "args"
    /\ Unstarted
    /\ VisualizerIdle
    /\ ClientIdle

\* The tester and its SIGINT handler exist once main() has constructed it.
HeaderNext ==
    \/ main_parse
    \/ /\ schedPc \notin {"args", "rejected"}
       /\ Next

HeaderSpec == HeaderInit /\ [][HeaderNext]_vars

\* ------------------------------------------------------- visualize_stress_test.py
\* stress_test.py is not running: a tester with nothing to do.
TesterIdle ==
    /\ total_requests = 1
    /\ concurrency = 1
    /\ batch_size = 1
    /\ cooldown = 0
    /\ network = {}
    /\ DefaultArgs
    /\ Constructed

Max(a, b) == IF a >= b THEN a ELSE b

\* plot_throughput, lines 104-112, on data['timestamps'] = ts given in tenths
\* of a second: duration is in tenths, int(duration) is duration \div 10,
\* bucket_size = duration / num_buckets is kept as that quotient, so
\* int((t - start_time) / bucket_size) is ((t - start_time) * num_buckets)
\* \div duration.  With duration = 0 the bucket size is 0.0 and the division
\* of line 111 raises ZeroDivisionError.  buckets[k] lists the (0-based)
\* indices appended to bucket k, in order.
throughput_buckets(ts) ==
    LET start == CHOOSE t \in {ts[i] : i \in 1..Len(ts)} : \A i \in 1..Len(ts) : t <= ts[i]
        last == CHOOSE t \in {ts[i] : i \in 1..Len(ts)} : \A i \in 1..Len(ts) : t >= ts[i]
        duration == last - start
        num_buckets == Max(duration \div 10, 10)
        bucket_idx(t) == Min(((t - start) * num_buckets) \div duration, num_buckets - 1)
    IN IF duration = 0
       THEN [raised |-> "ZeroDivisionError", num_buckets |-> num_buckets, buckets |-> <<>>]
       ELSE [raised |-> "",
             num_buckets |-> num_buckets,
             buckets |-> [k \in 0..(num_buckets - 1) |->
                            SelectSeq([i \in 1..Len(ts) |-> i - 1],
                                      LAMBDA i : bucket_idx(ts[i + 1]) = k)]]

\* main() of visualize_stress_test.py calls plot_throughput when the CSV
\* file had at least one valid row.
plot_throughput ==
    /\ timestamps # <<>>
    /\ throughput = None
    /\ throughput' = throughput_buckets(timestamps)
    /\ UNCHANGED <<config, clock, mainOut, running, results, schedPc, batch_num, cooldownLeft,
                   queue, unfinished, task, sessions, history, timestamps, count, ips>>

\* Timestamps (tenths of a second) read from the CSV file: equal ones, spans
\* below and above ten seconds, whole and fractional.
TimestampSamples == {0, 4, 10, 58, 125, 300}

VisualizerInit ==
    /\ timestamps \in UNION {[1..n -> TimestampSamples] : n \in 1..MaxTimestamps}
    /\ throughput = None
    /\ ClientIdle
    /\ TesterIdle

VisualizerSpec == VisualizerInit /\ [][plot_throughput]_vars

\* ------------------------------------------------------- client.py
\* generate_unique_ips: the address built for index i (0-based), as its four
\* octets; the f-string joins them with dots, which keeps different octet
\* tuples different.  ">> n" is \div 2^n and "& 0xFF" is % 256.  When the
\* last octet is 0 or 255 only ip_num and octet4 are recomputed; the other
\* three octets stay those of the number before the increment.
ip_for(i) ==
    LET base == 10 * 256 * 256 * 256
        ip_num == base + i + 1
        octet1 == (ip_num \div (256 * 256 * 256)) % 256
        octet2 == (ip_num \div (256 * 256)) % 256
        octet3 == (ip_num \div 256) % 256
        octet4 == ip_num % 256
    IN IF octet4 = 0 \/ octet4 = 255
       THEN <<octet1, octet2, octet3, (ip_num + 1) % 256>>
       ELSE <<octet1, octet2, octet3, octet4>>

generate_unique_ips(n) == [i \in 1..n |-> ip_for(i - 1)]

\* "IP_POOL = generate_unique_ips(TOTAL_REQUESTS)" at import of client.py.
client_start ==
    /\ ips = None
    /\ ips' = [IP_POOL |-> generate_unique_ips(count)]
    /\ UNCHANGED <<config, clock, mainOut, running, results, schedPc, batch_num, cooldownLeft,
                   queue, unfinished, task, sessions, history, timestamps, throughput, count>>

\* client.py started with TOTAL_REQUESTS set to any count up to MaxIpCount.
ClientInit ==
    /\ count \in 0..MaxIpCount
    /\ ips = None
    /\ VisualizerIdle
    /\ TesterIdle

ClientSpec == ClientInit /\ [][client_start]_vars

\* make_request, lines 91-98: the keyword arguments handed to
\* session.request(self.method, self.url, **kwargs).  'data' is a key of the
\* dictionary exactly when self.body is truthy (given and not empty); the
\* timeout and ssl entries are not modelled.
request_kwargs ==
    IF body # ""
    THEN [headers |-> headers, data |-> body]
    ELSE [headers |-> headers]

\* The requests issued so far: session.request is called once for each
\* identifier dequeued, with the tester's method and the keyword arguments.
issued ==
    {[request_id |-> id, method |-> method, kwargs |-> request_kwargs] : id \in dispatched}

\* Runs with -X and --body given or not, against a server that answers
\* every request.
RequestInit ==
    /\ total_requests \in 1..MaxDispatchRequests
    /\ concurrency \in 1..MaxConcurrency
    /\ batch_size \in {BatchSizeOrDefault(arg, total_requests) : arg \in 0..MaxDispatchRequests}
    /\ cooldown \in 0..MaxCooldown
    /\ network = {a \in Attempts : a.status = 200}
    /\ method \in {"GET", "HEAD", "POST", "PUT"}
    /\ body \in {"", "{}"}
    /\ header_args = <<>>
    /\ headers = <<>>
    /\ Constructed
    /\ VisualizerIdle
    /\ ClientIdle

RequestSpec == RequestInit /\ [][Next]_vars

\* A run against a server that answers every request, with the event loop's
\* scheduling as in FairSpec.
CancelInit ==
    /\ total_requests \in 1..MaxDispatchRequests
    /\ concurrency \in 1..MaxConcurrency
    /\ batch_size \in {BatchSizeOrDefault(arg, total_requests) : arg \in 0..MaxDispatchRequests}
    /\ cooldown \in 0..MaxCooldown
    /\ network = {a \in Attempts : a.status = 200}
    /\ DefaultArgs
    /\ Constructed
    /\ VisualizerIdle
    /\ ClientIdle

CancelSpec ==
    /\ CancelInit /\ [][Next]_vars
    /\ WF_vars(run)
    /\ \A b \in BatchIds, w \in WorkerIds : WF_vars(worker(b, w))

\* Attempts answered 200 after 10, 20, 30, 40 or 50 ms.
LadderAttempts ==
    {[kind |-> "response", status |-> 200, size |-> 1, ms |-> m, msg |-> ""] :
        m \in {10, 20, 30, 40, 50}}

\* Attempts answered 200 with a duration on either side of every bucket edge.
BoundaryAttempts ==
    {[kind |-> "response", status |-> 200, size |-> 1, ms |-> m, msg |-> ""] :
        m \in {9, 10, 49, 50, 99, 100, 199, 200, 499, 500, 999, 1000, 1999, 2000,
               4999, 5000}}

\* The attempts met, in completion order, by the runs whose statistics are
\* computed: up to MaxSamples ladder responses of different durations, up to
\* MaxOutcomes responses and timeouts, up to MaxBoundarySamples attempts of
\* any kind or duration.
SampleRuns ==
    UNION ({{seq \in [1..n -> LadderAttempts] :
                \A i, j \in 1..n : i < j => seq[i] # seq[j]} : n \in 1..MaxSamples}
           \cup {[1..n -> {a \in Attempts : a.kind = "timeout" \/ a.status = 200}] :
                    n \in 1..MaxOutcomes}
           \cup {[1..n -> BoundaryAttempts \cup Attempts] : n \in 1..MaxBoundarySamples})

\* The tester when run() has returned from a run of one batch by one worker
\* that was not interrupted: the results are those make_request built for
\* the attempts met, the batch's task has been cancelled and gathered.
StatsInit ==
    \E seq \in SampleRuns :
        /\ total_requests = Len(seq)
        /\ concurrency = 1
        /\ batch_size = BatchSizeOrDefault(0, Len(seq))
        /\ cooldown = 0
        /\ network = {seq[i] : i \in 1..Len(seq)}
        /\ running = TRUE
        /\ results = [i \in 1..Len(seq) |-> make_request(i - 1, seq[i])]
        /\ met = seq
        /\ progress = [i \in 1..Len(seq) |-> i]
        /\ waits = <<>>
        /\ schedPc = "returned"
        /\ batch_num = 1
        /\ cooldownLeft = 0
        /\ queue = [b \in BatchIds |-> <<>>]
        /\ unfinished = [b \in BatchIds |-> 0]
        /\ task = [b \in BatchIds |-> [w \in WorkerIds |->
                      IF b = 0 /\ w = 0 THEN [pc |-> "cancelled", item |-> NoItem]
                      ELSE NoTask]]
        /\ sessions = {}
        /\ start_time = 0
        /\ end_time \in {0, 1}
        /\ now = end_time
        /\ stats = None
        /\ buckets = None
        /\ printed = <<>>
        /\ exported = None
        /\ DefaultArgs
        /\ VisualizerIdle
        /\ ClientIdle
        /\ cancelAt = [pc |-> "never", left |-> 0, started |-> 0]
        /\ dispatched = 0..(Len(seq) - 1)
        /\ aborted = {}
        /\ batchLog = <<<<0, Len(seq)>>>>

\* main() from "stats = tester.calculate_stats()" on.
StatsNext == report

StatsSpec == StatsInit /\ [][StatsNext]_vars

\* ------------------------------------------------------- derived state
\* Identifiers dequeued whose Outcome is not appended yet.
InFlight ==
    {task[p[1]][p[2]].item :
        p \in {q \in BatchIds \X WorkerIds : task[q[1]][q[2]].pc = "request"}}

\* Worker tasks that exist and have not ended.
LiveTasks ==
    {<<b, w>> \in BatchIds \X WorkerIds :
        task[b][w].pc \in {"check", "get", "request", "cancelling"}}

Cancelled == cancelAt.pc # "never"

Returned == schedPc \in {"returned", "reported"}

OutcomesOf(id) == {i \in 1..Len(results) : results[i].request_id = id}

\* ------------------------------------------------------- claims
\* C1: in a run in which SIGINT never arrives, once run() has returned the
\* collection holds exactly total_requests Outcomes, exactly one for each
\* identifier 0..total_requests-1.
C1_AllOutcomesCollected ==
    (Returned /\ ~Cancelled) =>
        /\ Len(results) = total_requests
        /\ \A id \in 0..(total_requests - 1) : Cardinality(OutcomesOf(id)) = 1
        /\ \A i \in 1..Len(results) : results[i].request_id \in 0..(total_requests - 1)

\* A run of several batches with more workers than a batch has identifiers
\* has returned without SIGINT.
C1_Witness ==
    /\ Returned /\ ~Cancelled
    /\ concurrency > batch_size
    /\ num_batches > 1
    /\ Len(results) = total_requests

\* C2 (as claimed): every run of at least one request eventually reaches
\* Reporting, whether it ends completed or cancelled.
C2_RunReachesReporting == total_requests >= 1 => <>(schedPc = "reported")

\* C3 (as claimed): when SIGINT arrives while a batch is running and
\* identifiers still wait in its queue, the run_batch call of that batch
\* eventually returns.
C3_CancelledBatchReturns ==
    (~running /\ schedPc = "join" /\ queue[batch_num] # <<>>)
        ~> (schedPc \notin {"join", "gather"})

\* C4: in a run in which SIGINT arrived before the run completed, at every
\* state at most total_requests Outcomes are collected and each of them is
\* the record make_request builds for an identifier that was dequeued and
\* whose attempt has finished; no identifier has two Outcomes.
C4_CancelledOutcomesWellFormed ==
    (Cancelled /\ cancelAt.pc \notin {"returned", "reported"}) =>
        /\ Len(results) <= total_requests
        /\ \A i \in 1..Len(results) :
              /\ results[i].request_id \in dispatched \ (InFlight \cup aborted)
              /\ results[i] \in {make_request(results[i].request_id, a) : a \in network}
              /\ Cardinality(OutcomesOf(results[i].request_id)) = 1

\* SIGINT arrived during a batch; some Outcomes were collected, an attempt is
\* still in flight and an identifier was never dequeued.
C4_Witness ==
    /\ cancelAt.pc = "join"
    /\ results # <<>>
    /\ InFlight # {}
    /\ queue[batch_num] # <<>>
    /\ Len(results) < total_requests

\* C5: a worker that has seen the flag cleared (and left its loop) never
\* dequeues again; an attempt in flight is never aborted, neither by SIGINT
\* nor by run_batch cancelling its workers: it stays in flight until its
\* Outcome is appended.
C5_InFlightRunsToCompletion ==
    /\ [](aborted = {})
    /\ [][\A b \in BatchIds, w \in WorkerIds :
            /\ task[b][w].pc = "done" => task'[b][w] = task[b][w]
            /\ task[b][w].pc = "request" =>
                  \/ task'[b][w] = task[b][w]
                  \/ /\ task'[b][w].pc = "check"
                     /\ Len(results') = Len(results) + 1
                     /\ results'[Len(results')].request_id = task[b][w].item]_vars

\* SIGINT arrived while the batch was running; a worker saw the flag and
\* left, the attempts in flight were completed, and run_batch has cancelled
\* the workers that were left.
C5_Witness ==
    /\ cancelAt.pc = "join"
    /\ schedPc = "gather"
    /\ \E w \in WorkerIds : task[batch_num][w].pc = "done"
    /\ \E w \in WorkerIds : task[batch_num][w].pc \in {"cancelling", "cancelled"}
    /\ results # <<>>
    /\ dispatched = {results[i].request_id : i \in 1..Len(results)}

\* ceil(t / b) for t >= 1, b >= 1, by its defining inequalities.
CeilDiv(t, b) == CHOOSE n \in 1..t : n * b >= t /\ (n - 1) * b < t

RECURSIVE SumSizes(_)
SumSizes(log) ==
    IF log = <<>> THEN 0
    ELSE (log[Len(log)][2] - log[Len(log)][1]) + SumSizes(SubSeq(log, 1, Len(log) - 1))

\* C6: for T >= 1 requests the scheduler computes ceil(T/B) batches; the k-th run_batch call
\* covers [(k-1)*B, min(k*B, T)); the ranges are non-empty, start at 0, are
\* contiguous (hence pairwise disjoint), only the last may be smaller than B,
\* and in a run without SIGINT their sizes sum to T.
C6_BatchPartition ==
    total_requests >= 1 =>
        /\ num_batches = CeilDiv(total_requests, batch_size)
        /\ Len(batchLog) <= num_batches
        /\ \A k \in 1..Len(batchLog) :
              /\ batchLog[k] = <<(k - 1) * batch_size, Min(k * batch_size, total_requests)>>
              /\ batchLog[k][1] < batchLog[k][2]
              /\ batchLog[k][1] = IF k = 1 THEN 0 ELSE batchLog[k - 1][2]
              /\ batchLog[k][2] - batchLog[k][1] <= batch_size
              /\ batchLog[k][2] - batchLog[k][1] < batch_size => k = num_batches
        /\ (Returned /\ ~Cancelled) =>
              /\ Len(batchLog) = num_batches
              /\ SumSizes(batchLog) = total_requests
              /\ batchLog[Len(batchLog)][2] = total_requests

\* A run without SIGINT has returned after several batches, the last one
\* smaller than batch_size.
C6_Witness ==
    /\ Returned /\ ~Cancelled
    /\ Len(batchLog) > 1
    /\ batchLog[Len(batchLog)][2] - batchLog[Len(batchLog)][1] < batch_size

\* C7: batches run one after the other: a worker task that has not ended
\* belongs to the batch whose run_batch call is in progress, and every
\* identifier dequeued so far belongs to a batch up to that one, so attempts
\* of two batches are never in flight together.
C7_BatchesSequential ==
    /\ \A p \in LiveTasks : p[1] = batch_num /\ schedPc \in {"join", "gather"}
    /\ \A id \in InFlight : start_idx <= id /\ id < end_idx
    /\ \A id \in dispatched : id < end_idx
    /\ \A b \in BatchIds : (b # batch_num \/ schedPc \notin {"join", "gather"})
                               => unfinished[b] = 0

\* The second batch has an attempt in flight after the first has returned.
C7_Witness ==
    /\ batch_num = 1
    /\ schedPc = "join"
    /\ \E w \in WorkerIds : task[1][w].pc = "request"
    /\ \A w \in WorkerIds : task[0][w].pc \in {"none", "done", "cancelled"}
    /\ Len(results) = batch_size

\* C8: once SIGINT has arrived during a batch (run_batch in progress), during
\* the cooldown wait after it, or before the scheduler's next test of the
\* flag, no later batch is started: no run_batch call is made and no session
\* is opened; and whenever SIGINT arrived, every identifier dequeued belongs
\* to a batch that was started before it.
C8_NoBatchAfterCancel ==
    /\ [][(~running /\ cancelAt.pc \in {"init", "loop", "join", "gather", "cooldown"}) =>
             /\ batchLog' = batchLog
             /\ schedPc' # "start"
             /\ sessions' \subseteq sessions]_vars
    /\ [](Cancelled => \A id \in dispatched : id < cancelAt.started * batch_size)

\* SIGINT arrived during the cooldown wait; the run has returned with fewer
\* batches started than num_batches.
C8_Witness ==
    /\ cancelAt.pc = "cooldown"
    /\ Returned
    /\ Len(batchLog) = cancelAt.started
    /\ Len(batchLog) < num_batches
    /\ Len(results) = SumSizes(batchLog)

\* C9 (as claimed): when SIGINT arrives during a cooldown wait the wait is
\* abandoned at once: no further part of the cooldown elapses with the
\* scheduler still waiting.
C9_CooldownAbandonedOnCancel ==
    [][(schedPc = "cooldown" /\ ~running) => cooldownLeft' = cooldownLeft]_vars

\* C10: the flag starts TRUE (not cancelled); the handler clears it; a second
\* SIGINT changes nothing; no step sets it again, so a worker that has seen
\* it cleared (and left) coexists only with a cleared flag.
C10_FlagMonotone ==
    /\ running = TRUE
    /\ [][/\ ~running => ~running'
          /\ (running /\ ~running') => UNCHANGED <<config, scripts, clock, mainOut, results, schedPc,
                 batch_num, cooldownLeft, queue, unfinished, task, sessions>>]_vars
    /\ [](\A b \in BatchIds, w \in WorkerIds :
             task[b][w].pc = "done" => ~running)

\* The flag is cleared and a worker has seen it and left its loop.
C10_Witness ==
    /\ ~running
    /\ Cancelled
    /\ \E b \in BatchIds, w \in WorkerIds : task[b][w].pc = "done"

\* C11: an attempt in flight ends in exactly one way: make_request returns
\* one RequestResult for the identifier, which the worker appends and marks
\* done before it goes back to the top of its loop; whatever failure the
\* attempt met, the result has success = FALSE; the scheduler and the flag
\* are untouched.  A worker leaves its loop only on the flag, and a run
\* without SIGINT returns with one result per identifier whatever failed.
C11_FailuresBecomeOutcomes ==
    /\ [][\A b \in BatchIds, w \in WorkerIds :
            (task[b][w].pc = "request" /\ task'[b][w] # task[b][w]) =>
                /\ task'[b][w].pc = "check"
                /\ Len(results') = Len(results) + 1
                /\ results'[Len(results')].request_id = task[b][w].item
                /\ met'[Len(met')].kind # "response" =>
                      /\ ~results'[Len(results')].success
                      /\ results'[Len(results')].status_code = 0
                /\ unfinished'[b] = unfinished[b] - 1
                /\ schedPc' = schedPc
                /\ running' = running]_vars
    /\ [](\A b \in BatchIds, w \in WorkerIds : task[b][w].pc = "done" => ~running)
    /\ []((Returned /\ ~Cancelled) =>
             \A id \in 0..(total_requests - 1) : Cardinality(OutcomesOf(id)) = 1)

\* One worker met an exception other than a timeout or ClientError on the
\* first identifier, went on to the second, and the run has returned.
C11_Witness ==
    /\ Returned /\ ~Cancelled
    /\ concurrency = 1
    /\ Len(results) = 2
    /\ met[1].kind = "exception" /\ ~results[1].success
    /\ results[2].request_id = 1

\* C12: every result collected has either success = TRUE and an empty error
\* text, or success = FALSE and a non-empty error text.
C12_SuccessXorError ==
    \A i \in 1..Len(results) :
        \/ results[i].success /\ results[i].error = ""
        \/ ~results[i].success /\ results[i].error # ""

\* A ClientError whose str() is empty and a response have both been
\* collected.
C12_Witness ==
    /\ Len(results) = 2
    /\ \E i \in 1..2 : met[i].kind = "client_error" /\ met[i].msg = "" /\ ~results[i].success
    /\ \E i \in 1..2 : met[i].kind = "response" /\ results[i].success

\* C13 (as claimed): a result has success = TRUE exactly when its status code
\* is 200.
C13_SuccessIffStatus200 ==
    \A i \in 1..Len(results) : results[i].success <=> results[i].status_code = 200

\* C14: when main() has handled an empty results list, calculate_stats
\* returned None (its first statement, before any division), the only thing
\* printed is the no-results notice, and no report, latency distribution,
\* CSV or JSON export was produced.
C14_EmptyResultsNoReport ==
    (schedPc = "reported" /\ results = <<>>) =>
        /\ stats = None
        /\ buckets = None
        /\ printed = <<"no_results">>

\* A run interrupted before its first result was appended has been handled
\* by main().
C14_Witness ==
    /\ schedPc = "reported"
    /\ results = <<>>
    /\ total_requests >= 1
    /\ Cancelled
    /\ printed = <<"no_results">>

\* C15 (as claimed): a run of zero requests ends normally: no exception
\* leaves run().
C15_ZeroRequestsEndNormally ==
    total_requests = 0 => schedPc # "crashed"

\* The rank-interpolation formula as stated: k = (n-1)*p, the value at
\* floor(k) plus the fraction of k times the step to the next value, the
\* last value when floor(k)+1 = n.  p in hundredths, result in hundredths of
\* a millisecond.
LinearInterpolation(times, p) ==
    LET n == Len(times)
        fl == CHOOSE m \in 0..(n - 1) : m * 100 <= (n - 1) * p /\ (n - 1) * p < (m + 1) * 100
    IN  IF fl + 1 = n THEN 100 * times[n]
        ELSE 100 * times[fl + 1] + ((n - 1) * p - 100 * fl) * (times[fl + 2] - times[fl + 1])

\* C16: on the sorted durations of any non-empty results list, percentile
\* agrees with the stated interpolation for every p from 0 to 1 (in steps of
\* 0.01), and so do the p95 and p99 of the statistics; for the durations
\* 10, 20, 30, 40, 50 ms the values are p50 = 30, p95 = 48, p99 = 49.6.
C16_PercentileInterpolates ==
    (schedPc = "reported" /\ stats # None) =>
        LET data == sort(response_times) IN
        /\ \A p \in 0..100 : percentile(data, p) = LinearInterpolation(data, p)
        /\ stats.p95_response_time = LinearInterpolation(data, 95)
        /\ stats.p99_response_time = LinearInterpolation(data, 99)
        /\ data = <<10, 20, 30, 40, 50>> =>
              /\ percentile(data, 50) = 3000
              /\ stats.p95_response_time = 4800
              /\ stats.p99_response_time = 4960

\* The five durations were collected out of order and the statistics are
\* computed.
C16_Witness ==
    /\ schedPc = "reported"
    /\ response_times = <<50, 10, 40, 20, 30>>
    /\ stats.p99_response_time = 4960

RECURSIVE SumOver(_, _)
SumOver(f, S) ==
    IF S = {} THEN 0
    ELSE LET x == CHOOSE y \in S : TRUE IN f[x] + SumOver(f, S \ {x})

\* C18: the latency distribution has the nine buckets, every result
\* (successful or failed) is counted in one of them, and the nine counts sum
\* to the number of results.
C18_BucketsSumToOutcomes ==
    (schedPc = "reported" /\ buckets # None) =>
        /\ SumOver(buckets, DOMAIN buckets) = Len(results)
        /\ DOMAIN buckets = {BucketNames[i] : i \in 1..Len(BucketNames)}
        /\ Cardinality(DOMAIN buckets) = 9
        /\ \A i \in 1..Len(results) : buckets[bucket(results[i].response_time)] >= 1

\* A failed result and a response that took exactly 10 ms were counted, in
\* different buckets.
C18_Witness ==
    /\ schedPc = "reported"
    /\ Len(results) = 2
    /\ ~results[1].success
    /\ results[2].success /\ results[2].response_time = 10
    /\ buckets["<10ms"] = 1 /\ buckets["10-50ms"] = 1

\* C19: in the statistics of a non-empty results list, total = successful +
\* failed = the number of results, failed is the number of results with
\* success = FALSE, the error counts sum to failed, the status-code counts
\* sum to total, and every attempt that got no response is counted under
\* status code 0; 7 responses and 3 timeouts give failed = 3, errors =
\* {Timeout: 3} and 3 under code 0.
C19_CountsConsistent ==
    (schedPc = "reported" /\ stats # None) =>
        LET noResponse == {i \in 1..Len(met) : met[i].kind # "response"} IN
        /\ stats.total_requests = Len(results)
        /\ stats.total_requests = stats.successful_requests + stats.failed_requests
        /\ stats.failed_requests = Cardinality({i \in 1..Len(results) : ~results[i].success})
        /\ SumOver(stats.errors, DOMAIN stats.errors) = stats.failed_requests
        /\ SumOver(stats.status_codes, DOMAIN stats.status_codes) = stats.total_requests
        /\ noResponse # {} => stats.status_codes[0] = Cardinality(noResponse)
        /\ (Len(results) = 10 /\ Cardinality(noResponse) = 3
              /\ \A i \in noResponse : met[i].kind = "timeout") =>
                 /\ stats.successful_requests = 7
                 /\ stats.failed_requests = 3
                 /\ stats.errors = [e \in {"Timeout"} |-> 3]
                 /\ stats.status_codes[0] = 3

\* The statistics of 7 responses and 3 timeouts are computed.
C19_Witness ==
    /\ schedPc = "reported"
    /\ Len(results) = 10
    /\ Cardinality({i \in 1..10 : met[i].kind = "timeout"}) = 3
    /\ Cardinality({i \in 1..10 : met[i].kind = "response"}) = 7
    /\ stats.failed_requests = 3

\* C20: every batch that was started got exactly concurrency worker tasks,
\* a batch not started has none, and the attempts in flight never outnumber
\* concurrency.
C20_ConcurrencyBound ==
    /\ \A b \in BatchIds :
          Cardinality({w \in WorkerIds : task[b][w].pc # "none"})
              = IF b < Len(batchLog) THEN concurrency ELSE 0
    /\ Cardinality(InFlight) <= concurrency
    /\ Cardinality({p \in BatchIds \X WorkerIds : task[p[1]][p[2]].pc = "request"})
          <= concurrency

\* Fewer workers than MaxConcurrency, all of them with an attempt in flight
\* and an identifier still waiting in the queue.
C20_Witness ==
    /\ concurrency < MaxConcurrency
    /\ Cardinality(InFlight) = concurrency
    /\ queue[batch_num] # <<>>
    /\ schedPc = "join"

\* C21: the progress callback is called once for every result appended, in
\* the same step, with the number of results then collected: over the whole
\* run the values passed are 1, 2, 3, ... in this order, and none exceeds
\* total_requests.
C21_ProgressCountsOutcomes ==
    /\ [](progress = [i \in 1..Len(results) |-> i])
    /\ [](\A i \in 1..Len(progress) : progress[i] <= total_requests)
    /\ [][/\ results' # results <=> progress' # progress
          /\ progress' # progress =>
                /\ Len(results') = Len(results) + 1
                /\ progress' = Append(progress, Len(results'))]_vars

\* Results of two batches, completed by two workers, were reported to the
\* callback.
C21_Witness ==
    /\ progress = <<1, 2, 3>>
    /\ concurrency = 2
    /\ Len(batchLog) = 2
    /\ Returned

\* C22: in a run of at least one request in which SIGINT has not arrived, a
\* cooldown wait was started after each batch that has returned except the
\* last one, in the order of the batches and once each (when cooldown > 0;
\* none when cooldown = 0); a wait goes on only when the batch before it has returned
\* (its workers have ended, its results are all collected); when run() has
\* returned there were num_batches - 1 waits (two for 3 requests in batches
\* of 1).
C22_OneCooldownBetweenBatches ==
    (~Cancelled /\ total_requests >= 1) =>
        LET returnedBatches ==
                IF schedPc = "cooldown" THEN batch_num + 1
                ELSE IF schedPc \in {"start", "join", "gather"} THEN batch_num
                ELSE Min(batch_num, num_batches)
        IN
        /\ waits = IF cooldown > 0
                   THEN [k \in 1..Min(returnedBatches, num_batches - 1) |-> k - 1]
                   ELSE <<>>
        /\ schedPc = "cooldown" =>
              /\ LiveTasks = {}
              /\ InFlight = {}
              /\ Len(results) = end_idx
              /\ waits[Len(waits)] = batch_num
        /\ (Returned /\ cooldown > 0) => Len(waits) = num_batches - 1
        /\ (Returned /\ cooldown > 0 /\ total_requests = 3 /\ batch_size = 1) =>
              waits = <<0, 1>>

\* Three requests in batches of one with a cooldown: the run has returned
\* after two waits.
C22_Witness ==
    /\ Returned /\ ~Cancelled
    /\ cooldown > 0
    /\ total_requests = 3 /\ batch_size = 1
    /\ waits = <<0, 1>>
    /\ Len(batchLog) = 3

\* C23: in the step in which run_batch returns, no attempt is in flight,
\* every identifier dequeued has exactly one result, and the concurrency
\* worker tasks of the batch have all ended; so outside a run_batch call
\* there is no live worker task and no attempt in flight.
C23_RunBatchReturnsWhenDone ==
    /\ [][(schedPc = "gather" /\ schedPc' # "gather") =>
             /\ InFlight = {}
             /\ \A id \in dispatched : Cardinality(OutcomesOf(id)) = 1
             /\ Cardinality({w \in WorkerIds :
                    task[batch_num][w].pc \in {"done", "cancelled"}}) = concurrency
             /\ \A w \in WorkerIds : task[batch_num][w].pc \in {"none", "done", "cancelled"}
             /\ UNCHANGED <<task, results>>]_vars
    /\ [](schedPc \notin {"join", "gather"} => LiveTasks = {} /\ InFlight = {})

\* run_batch has returned from a batch run by two workers into the cooldown
\* wait: both were cancelled, and the batch's results are collected.
C23_Witness ==
    /\ schedPc = "cooldown"
    /\ concurrency = 2
    /\ \A w \in WorkerIds : task[batch_num][w].pc = "cancelled"
    /\ Len(results) = end_idx
    /\ results # <<>>

\* C24: a worker that dequeues takes an identifier of 0..total_requests-1
\* that was never dequeued before, so no identifier is dispatched twice; the
\* requests issued never outnumber total_requests, and when run() has
\* returned with fewer, SIGINT had arrived.
C24_DispatchedAtMostOnce ==
    /\ [][\A b \in BatchIds, w \in WorkerIds :
            (task[b][w].pc # "request" /\ task'[b][w].pc = "request") =>
                /\ task'[b][w].item \notin dispatched
                /\ task'[b][w].item \in 0..(total_requests - 1)
                /\ dispatched' = dispatched \cup {task'[b][w].item}
                /\ \A c \in BatchIds, v \in WorkerIds :
                      task'[c][v].item = task'[b][w].item => c = b /\ v = w]_vars
    /\ [](Len(results) + Cardinality(InFlight) = Cardinality(dispatched \ aborted))
    /\ [](Cardinality(dispatched) <= total_requests)
    /\ []((Returned /\ Cardinality(dispatched) < total_requests) => Cancelled)

\* Two workers hold different identifiers in flight, a third identifier
\* waits.
C24_Witness ==
    /\ Cardinality(InFlight) = 2
    /\ Cardinality(dispatched) = 2
    /\ total_requests = 3
    /\ \E b \in BatchIds : Len(queue[b]) = 1

\* C25: every step leaves the results list as it is or appends one result to
\* it, and the result appended is that of an attempt that was in flight and
\* ends in this step; nothing is removed, replaced or reordered.
C25_ResultsAppendOnly ==
    [][\/ results' = results
       \/ /\ Len(results') = Len(results) + 1
          /\ SubSeq(results', 1, Len(results)) = results
          /\ \E b \in BatchIds, w \in WorkerIds :
                /\ task[b][w].pc = "request"
                /\ task'[b][w].pc # "request"
                /\ results'[Len(results')].request_id = task[b][w].item]_vars

\* The attempt dequeued second finished first: its result precedes that of
\* the attempt dequeued first.
C25_Witness ==
    /\ Len(results) >= 2
    /\ results[1].request_id = 1
    /\ results[2].request_id = 0

\* The state of the run lifecycle: Idle until run() is entered, Running
\* while run() is in its loop, Completed or Cancelled when run() has returned
\* (Cancelled when SIGINT arrived before that), Reporting when main() has
\* handled the results.
Lifecycle ==
    IF schedPc = "init" THEN "Idle"
    ELSE IF schedPc \in {"loop", "start", "join", "gather", "cooldown"} THEN "Running"
    ELSE IF schedPc = "returned"
         THEN IF Cancelled /\ cancelAt.pc # "returned" THEN "Cancelled" ELSE "Completed"
    ELSE IF schedPc = "reported" THEN "Reporting"
    ELSE "Crashed"

\* C26: in a run whose batch size is not zero the lifecycle state changes
\* only along Idle -> Running -> Completed or Cancelled -> Reporting;
\* when run() has returned, and so whenever the statistics are computed, no
\* worker task is alive and no attempt is in flight, and from then on the
\* results list does not change.
C26_LifecycleForwardOnly ==
    /\ [][(batch_size >= 1 /\ Lifecycle' # Lifecycle) =>
            <<Lifecycle, Lifecycle'>> \in
                {<<"Idle", "Running">>, <<"Running", "Completed">>,
                 <<"Running", "Cancelled">>, <<"Completed", "Reporting">>,
                 <<"Cancelled", "Reporting">>}]_vars
    /\ [](Lifecycle \in {"Completed", "Cancelled", "Reporting"} =>
             LiveTasks = {} /\ InFlight = {})
    /\ [][(Lifecycle \in {"Completed", "Cancelled", "Reporting"}) =>
             results' = results]_vars
    /\ [](Lifecycle = "Reporting" =>
             stats = calculate_stats /\ (stats # None => stats.total_requests = Len(results)))

\* A run interrupted in its second batch has been reported, with the results
\* collected until then.
C26_Witness ==
    /\ Lifecycle = "Reporting"
    /\ cancelAt.pc = "join" /\ cancelAt.started = 2
    /\ stats # None
    /\ stats.total_requests = Len(results)
    /\ Len(results) < total_requests

\* C27: a session is open exactly while a run_batch call is in progress, and
\* it is that of the current batch: never two at a time, none during a
\* cooldown wait or once run() has returned; every live worker and every
\* attempt in flight belongs to the batch whose session is open.
C27_OneSessionPerBatch ==
    /\ Cardinality(sessions) <= 1
    /\ sessions = IF schedPc \in {"join", "gather"} THEN {batch_num} ELSE {}
    /\ schedPc \in {"cooldown", "returned", "reported"} => sessions = {}
    /\ \A p \in LiveTasks : p[1] \in sessions
    /\ \A b \in BatchIds, w \in WorkerIds : task[b][w].pc = "request" => b \in sessions

\* The second batch has an attempt in flight in its own session, after the
\* cooldown wait that followed the first.
C27_Witness ==
    /\ sessions = {1}
    /\ waits = <<0>>
    /\ \E w \in WorkerIds : task[1][w].pc = "request"

\* C28: every failed result has status code 0 and response size 0, and status
\* code 0 is found on failed results only; an attempt that ends in a timeout
\* error has the error text "Timeout", also when the error is a ClientError
\* as well, and no other attempt has it.
C28_FailureSentinels ==
    \A i \in 1..Len(results) :
        /\ ~results[i].success => results[i].status_code = 0 /\ results[i].response_size = 0
        /\ results[i].status_code = 0 => ~results[i].success
        /\ IsTimeoutError(met[i]) => results[i].error = "Timeout"
        /\ results[i].error = "Timeout" => IsTimeoutError(met[i])

\* A timeout that is also a ClientError and a plain ClientError have both
\* been collected.
C28_Witness ==
    /\ Len(results) = 2
    /\ met[1].kind = "server_timeout" /\ results[1].error = "Timeout"
    /\ met[2].kind = "client_error" /\ results[2].error # "Timeout"
    /\ results[2].status_code = 0

\* C29: once the flag is cleared, eventually no worker task is alive (each
\* has left its loop or was cancelled by run_batch); and a worker waiting on the queue is never stuck there: its poll
\* always ends (with an identifier or with the timeout), also when the queue
\* is empty.
C29_WorkersLeaveAfterCancel ==
    /\ ~running ~> (LiveTasks = {})
    /\ [](\A b \in BatchIds, w \in WorkerIds :
             task[b][w].pc = "get" => ENABLED worker_get(b, w))

\* The flag is cleared, an identifier is still queued, and both workers of
\* the batch have left their loops.
C29_Witness ==
    /\ ~running
    /\ schedPc = "join"
    /\ queue[batch_num] # <<>>
    /\ concurrency = 2
    /\ \A w \in WorkerIds : task[batch_num][w].pc = "done"

\* The identifiers of batch b that have a result.
DoneIn(b) ==
    {i \in 1..Len(results) :
        b * batch_size <= results[i].request_id /\ results[i].request_id < (b + 1) * batch_size}

\* C30: the items of a batch's queue not yet marked done are those still
\* queued and those in flight, and the items marked done are those whose
\* result is in the list; the step that ends an attempt appends its result,
\* calls the progress callback with the new length and marks one item done,
\* and no other step marks an item done.
C30_AppendThenMarkDone ==
    /\ [](\A b \in BatchIds :
            /\ unfinished[b] =
                  Len(queue[b]) + Cardinality({w \in WorkerIds : task[b][w].pc = "request"})
            /\ (b < Len(batchLog) /\ total_requests >= 1) =>
                  (batchLog[b + 1][2] - batchLog[b + 1][1]) - unfinished[b]
                      = Cardinality(DoneIn(b)))
    /\ [][\A b \in BatchIds :
            (unfinished'[b] < unfinished[b]) =>
                /\ unfinished'[b] = unfinished[b] - 1
                /\ Len(results') = Len(results) + 1
                /\ progress' = Append(progress, Len(results'))
                /\ \E w \in WorkerIds :
                      /\ task[b][w].pc = "request"
                      /\ results'[Len(results')].request_id = task[b][w].item
                      /\ task'[b][w].pc = "check"]_vars
    /\ [][results' # results => \E b \in BatchIds : unfinished'[b] = unfinished[b] - 1]_vars

\* A batch of two: one item is marked done with its result collected, the
\* other is in flight.
C30_Witness ==
    /\ schedPc = "join"
    /\ unfinished[batch_num] = 1
    /\ Len(queue[batch_num]) = 0
    /\ Len(results) = 1
    /\ Cardinality(InFlight) = 1
    /\ progress = <<1>>

\* C31: at most `concurrency` workers hold an identifier or stand inside the
\* dequeue; once the flag is cleared no step raises the number of Outcomes
\* plus the number of such workers, so at most `concurrency` Outcomes are
\* appended from then on, one per such worker; a worker that tests the flag
\* after it was cleared leaves, and no worker enters the dequeue.
C31_AtMostOneMorePerWorker ==
    /\ [](Cardinality(Committed) <= concurrency)
    /\ [][~running =>
            /\ Len(results') + Cardinality(Committed')
                  <= Len(results) + Cardinality(Committed)
            /\ \A b \in BatchIds, w \in WorkerIds :
                  /\ task[b][w].pc = "check" =>
                        task'[b][w].pc \in {"check", "done", "cancelling", "cancelled"}
                  /\ task'[b][w].pc = "get" => task[b][w].pc = "get"]_vars

\* The flag was cleared with one worker holding an identifier and the other
\* inside the dequeue of a queue that still has an identifier for it.
C31_Witness ==
    /\ ~running
    /\ schedPc = "join"
    /\ queue[batch_num] # <<>>
    /\ task[batch_num][0].pc = "request"
    /\ task[batch_num][1].pc = "get"
    /\ results # <<>>

\* C32: when every Outcome has the same latency v, the minimum, the mean, the
\* median, the 95th and 99th percentile and the maximum all equal v; the
\* requests per second are the number of Outcomes divided by the elapsed
\* time, and 0 when the elapsed time is not positive.
C32_EqualLatenciesCollapse ==
    (schedPc = "reported" /\ results # <<>>) =>
        LET v == results[1].response_time
            elapsed == end_time - start_time
        IN /\ (\A i \in 1..Len(results) : results[i].response_time = v) =>
                /\ stats.min_response_time = v
                /\ stats.avg_response_time.num = v * stats.avg_response_time.den
                /\ stats.median_response_time.num = v * stats.median_response_time.den
                /\ stats.p95_response_time = v * 100
                /\ stats.p99_response_time = v * 100
                /\ stats.max_response_time = v
           /\ IF elapsed > 0
              THEN stats.requests_per_second.num * elapsed
                      = Len(results) * stats.requests_per_second.den
              ELSE stats.requests_per_second.num = 0

\* The report of ten Outcomes of 50 ms each, collected in one tick.
C32_Witness ==
    /\ schedPc = "reported"
    /\ Len(results) = 10
    /\ \A i \in 1..Len(results) : results[i].response_time = 50
    /\ end_time - start_time = 1
    /\ stats.p99_response_time = 5000

\* C33: in the statistics of a non-empty results list min <= median <= p95
\* <= p99 <= max and min <= mean <= max, and the median equals the
\* interpolated percentile at p = 0.5.
C33_StatisticsOrdered ==
    (schedPc = "reported" /\ stats # None) =>
        LET med == stats.median_response_time
            avg == stats.avg_response_time
        IN /\ stats.min_response_time * med.den <= med.num
           /\ med.num * 100 <= stats.p95_response_time * med.den
           /\ stats.p95_response_time <= stats.p99_response_time
           /\ stats.p99_response_time <= stats.max_response_time * 100
           /\ stats.min_response_time * avg.den <= avg.num
           /\ avg.num <= stats.max_response_time * avg.den
           /\ med.num * 100 = LinearInterpolation(sort(response_times), 50) * med.den

\* The statistics of four different durations, collected out of order: the
\* median lies between the two middle values and the order is strict.
C33_Witness ==
    /\ schedPc = "reported"
    /\ response_times = <<40, 10, 30, 20>>
    /\ stats.median_response_time = Rat(50, 2)
    /\ stats.min_response_time * 100 < stats.p95_response_time
    /\ stats.p95_response_time < stats.p99_response_time
    /\ stats.p99_response_time < stats.max_response_time * 100

\* C34: with the edges 10, 50, 100, 200, 500, 1000, 2000 and 5000 ms, the
\* k-th bucket counts the results whose duration is at least the edge below
\* it (none for the first) and less than the edge above it (none for the
\* last): a duration on an edge is counted in the bucket that starts there,
\* 5000 ms in '>5s', anything below 10 ms in '<10ms'.
C34_BucketsLowerInclusive ==
    (schedPc = "reported" /\ buckets # None) =>
        LET edges == <<10, 50, 100, 200, 500, 1000, 2000, 5000>>
            inBucket(k, ms) == /\ (k > 1 => edges[k - 1] <= ms)
                               /\ (k < 9 => ms < edges[k])
        IN \A k \in 1..9 :
              buckets[BucketNames[k]] =
                  Cardinality({i \in 1..Len(results) :
                                  inBucket(k, results[i].response_time)})

\* A response of exactly 5000 ms and one of 4999 ms were counted, in '>5s'
\* and in '2-5s'.
C34_Witness ==
    /\ schedPc = "reported"
    /\ response_times = <<5000, 4999>>
    /\ buckets[">5s"] = 1
    /\ buckets["2-5s"] = 1

\* C35: the step that computes the statistics and the latency distribution
\* and writes the exports leaves the results list (content and order), the
\* flag and the start and end timestamps as they were; the rows of the CSV
\* export are the Outcomes in completion order, numbered 1..n.
C35_ReportLeavesRunState ==
    [][(schedPc = "returned" /\ schedPc' = "reported") =>
          /\ results' = results
          /\ running' = running
          /\ start_time' = start_time
          /\ end_time' = end_time
          /\ exported' # None =>
                /\ DOMAIN exported'.rows = 1..Len(results)
                /\ \A i \in 1..Len(results) :
                      LET row == exported'.rows[i] IN
                      /\ row.Request_ID = i
                      /\ row.Success = results[i].success
                      /\ row.Status_Code = results[i].status_code
                      /\ row.Response_Time_ms = results[i].response_time
                      /\ row.Response_Size_bytes = results[i].response_size
                      /\ row.Error = results[i].error]_vars

\* The CSV export of a run whose second identifier completed first, and
\* faster: row 1 is the Outcome of identifier 1.
C35_Witness ==
    /\ schedPc = "reported"
    /\ exported # None
    /\ Len(results) >= 2
    /\ results[1].request_id = 1
    /\ results[2].request_id = 0
    /\ results[1].response_time > results[2].response_time
    /\ exported.rows[1].Request_ID = 1
    /\ exported.rows[1].Response_Time_ms = results[1].response_time

\* C36: a request is issued with the configured body only when its method is
\* one that takes a body (POST, PUT, PATCH); a GET or HEAD request is issued
\* without a body even when one is configured.
C36_BodyOnlyWhenMethodTakesOne ==
    \A r \in issued :
        "data" \in DOMAIN r.kwargs => r.method \in {"POST", "PUT", "PATCH"}

\* t is s without its leading and trailing blanks.
IsTrimOf(t, s) ==
    /\ t = <<>> \/ (t[1] # " " /\ t[Len(t)] # " ")
    /\ \E a \in 0..Len(s) :
          /\ a + Len(t) <= Len(s)
          /\ t = SubSeq(s, a + 1, a + Len(t))
          /\ \A i \in (1..a) \cup ((a + Len(t) + 1)..Len(s)) : s[i] = " "

\* The position of the first ':' of h, 0 when h has none.
FirstColon(h) ==
    LET colons == {q \in 1..Len(h) : h[q] = ":"} IN
    IF colons = {} THEN 0 ELSE CHOOSE q \in colons : \A j \in colons : q <= j

\* C37: when some -H argument has no ':', the program ends before the run
\* starts: no batch is started, no identifier dispatched, no Outcome
\* collected, nothing reported; when every argument has one, the run is
\* entered and each argument is split at its first ':' into the name and
\* the value, both trimmed, the value kept for a name being that of the last
\* argument with that name.
C37_MalformedHeaderRejected ==
    LET malformed == \E i \in 1..Len(header_args) : FirstColon(header_args[i]) = 0
    IN /\ malformed =>
            /\ schedPc \in {"args", "rejected"}
            /\ Unstarted
       /\ (~malformed /\ schedPc # "args") =>
            /\ schedPc # "rejected"
            /\ \A i \in 1..Len(header_args) :
                  LET h == header_args[i]
                      p == FirstColon(h)
                  IN \E name \in DOMAIN headers :
                        /\ IsTrimOf(name, SubSeq(h, 1, p - 1))
                        /\ (\A l \in (i + 1)..Len(header_args) :
                               ~IsTrimOf(name, SubSeq(header_args[l], 1,
                                                      FirstColon(header_args[l]) - 1)))
                              => IsTrimOf(headers[name], SubSeq(h, p + 1, Len(h)))
            /\ Cardinality(DOMAIN headers) <= Len(header_args)

\* " A : c:d " was given after "A:b": the run was entered with the one
\* header A whose value is "c:d".
C37_Witness ==
    /\ header_args = << <<"A", ":", "b">>, <<" ", "A", " ", ":", " ", "c", ":", "d", " ">> >>
    /\ schedPc = "reported"
    /\ headers = [k \in {<<"A">>} |-> <<"c", ":", "d">>]
    /\ Len(results) = total_requests

\* C38: for every non-empty list of timestamps plot_throughput makes
\* max(floor(span), 10) buckets, puts every Outcome in exactly one of them
\* (the latest in the last bucket), so the bucket sizes sum to the number of
\* Outcomes, also when all timestamps are equal (span 0).
C38_EveryOutcomeInOneBucket ==
    throughput # None =>
        LET n == Len(timestamps)
            span == CHOOSE d \in 0..300 :
                       \E i, j \in 1..n : /\ d = timestamps[j] - timestamps[i]
                                          /\ \A l \in 1..n : /\ timestamps[i] <= timestamps[l]
                                                             /\ timestamps[l] <= timestamps[j]
            b == throughput.buckets
        IN /\ throughput.raised = ""
           /\ throughput.num_buckets = Max(span \div 10, 10)
           /\ DOMAIN b = 0..(throughput.num_buckets - 1)
           /\ \A i \in 0..(n - 1) :
                 Cardinality({k \in DOMAIN b : \E l \in 1..Len(b[k]) : b[k][l] = i}) = 1
           /\ SumOver([k \in DOMAIN b |-> Len(b[k])], DOMAIN b) = n
           /\ \A i \in 0..(n - 1) :
                 (\A l \in 1..n : timestamps[l] <= timestamps[i + 1]) =>
                     \E l \in 1..Len(b[throughput.num_buckets - 1]) :
                         b[throughput.num_buckets - 1][l] = i

\* C39: the pool generated for count has exactly count addresses, pairwise
\* distinct, none with a last octet of 0 or 255, so that request ids 1..count
\* (which index the pool at id - 1) each get their own address.
C39_PoolDistinctAndUsable ==
    ips # None =>
        LET pool == ips.IP_POOL IN
        /\ Len(pool) = count
        /\ \A id \in 1..count : pool[id][4] \notin {0, 255}
        /\ Cardinality({pool[id] : id \in 1..count}) = count

=============================================================================
